---- MODULE Spec2Model ----
(***************************************************************************)
(* Model of the step-wise A* engine of main.py: setup() builds the grid    *)
(* from an obstacle file and a points file, AStarPathfinder.__init__       *)
(* pushes the start cell, and the main loop calls step() once per frame.   *)
(* Cells are <<x, y>>; the frontier is the heapq list of (f, cell) tuples, *)
(* kept in the exact array layout heapq produces.                          *)
(***************************************************************************)
EXTENDS Integers, Sequences, FiniteSets, TLC

\* Grid dimensions (80 x 65 in the program, reduced for checking).
COLS == 8
ROWS == 3

\* step() calls made by the main loop after the engine became terminal.
MaxIdle == 2

\* Contents of data/obstacles.txt: any combination of a single block, a
\* wall across the grid in column 2 that leaves the top row open, and the
\* cell that closes that wall.
ObstaclePieces ==
    { {<<6, 1>>}, {<<2, y>> : y \in 0 .. ROWS - 2}, {<<2, ROWS - 1>>} }

ObstacleFiles == {UNION ps : ps \in SUBSET ObstaclePieces}

\* Coordinates that may appear in data/points.txt: every cell of the grid,
\* and one coordinate just outside the grid on each side.
PointCoords ==
    ((0 .. COLS - 1) \X (0 .. ROWS - 1))
        \cup {<<-1, 0>>, <<0, -1>>, <<COLS, 0>>, <<0, ROWS>>}

\* Default positions used when data/points.txt cannot be loaded.
DefaultStartX == 64
DefaultStartY == 15
DefaultEndX == 6
DefaultEndY == 51

None == <<>>

VARIABLES
    pc,          \* "setup", "running" (engine built) or "IndexError"
    obstacles,   \* coordinates loaded from the obstacle file
    start_pos,   \* start coordinate used by setup()
    end_pos,     \* end coordinate used by setup()
    obstacle,    \* cells whose obstacle flag is True
    start,       \* start cell
    end,         \* goal cell
    open_set,    \* heapq list of <<f at push time, cell>>
    closed_set,  \* set of expanded cells
    current,     \* cell popped last, or None
    found,       \* terminal flag
    g, h, f,     \* per-cell A* values
    parent,      \* per-cell predecessor, or None
    printed,     \* last line printed by step(), "" if none
    ret,         \* value returned by the last step() call
    expanded,    \* history: cells in the order they were added to closed_set
    pushed,      \* history: cells in the order they were pushed on open_set
    idle         \* step() calls made since the engine became terminal

\* State of the obstacle editor (editor.py), a separate program that shares
\* the two data files' formats with main.py.
VARIABLES
    ed_pc,            \* "setup", "running" or "exited"
    ed_grid,          \* cells whose obstacle flag is True in the editor grid
    ed_obstacles,     \* the editor's obstacles set (what save writes)
    start_point,      \* editor start point
    end_point,        \* editor end point
    current_mode,     \* "obstacle", "start" or "end"
    drawing,          \* left button held in obstacle mode
    erasing,          \* right button held in obstacle mode
    obstacle_file,    \* coordinates in data/obstacles.txt, None if missing
    points_file       \* <<start, end>> in data/points.txt, None if missing

engine_vars == <<pc, obstacles, start_pos, end_pos, obstacle, start, end,
                 open_set, closed_set, current, found, g, h, f, parent,
                 printed, ret, expanded, pushed, idle>>

editor_vars == <<ed_pc, ed_grid, ed_obstacles, start_point, end_point,
                 current_mode, drawing, erasing, obstacle_file, points_file>>

vars == <<engine_vars, editor_vars>>

Cells == (0 .. COLS - 1) \X (0 .. ROWS - 1)

Abs(n) == IF n < 0 THEN -n ELSE n

\* The one element of a singleton set.  TheOne({F(x) : x \in {e}}) is
\* F(e) with e evaluated once; the model uses it where the code stores an
\* intermediate result in a local variable.
TheOne(S) == CHOOSE x \in S : TRUE

----------------------------------------------------------------------------
\* Variant of add_neighbors whose last test is off by one (y > 1).
add_neighbors_offbyone(c) ==
    (IF c[1] < COLS - 1 THEN <<(<<c[1] + 1, c[2]>>)>> ELSE <<>>) \o
    (IF c[1] > 0 THEN <<(<<c[1] - 1, c[2]>>)>> ELSE <<>>) \o
    (IF c[2] < ROWS - 1 THEN <<(<<c[1], c[2] + 1>>)>> ELSE <<>>) \o
    (IF c[2] > 1 THEN <<(<<c[1], c[2] - 1>>)>> ELSE <<>>)

\* Cell.add_neighbors: +x, -x, +y, -y, each only when inside the grid.
add_neighbors(c) ==
    (IF c[1] < COLS - 1 THEN <<(<<c[1] + 1, c[2]>>)>> ELSE <<>>) \o
    (IF c[1] > 0 THEN <<(<<c[1] - 1, c[2]>>)>> ELSE <<>>) \o
    (IF c[2] < ROWS - 1 THEN <<(<<c[1], c[2] + 1>>)>> ELSE <<>>) \o
    (IF c[2] > 0 THEN <<(<<c[1], c[2] - 1>>)>> ELSE <<>>)

\* Manhattan distance.
heuristic(a, b) == Abs(a[1] - b[1]) + Abs(a[2] - b[2])

\* Variant of cost with a non-unit edge cost.
cost_two(a, b) == 2

\* Unit edge cost.
cost(a, b) == 1

\* Python's (f, cell) tuple comparison: the stored keys decide unless they
\* are equal; then the cells are compared with Cell.__lt__, which reads the
\* cells' CURRENT f values (ff), not the stored ones.
Cell__lt__(a, b, ff) == ff[a] < ff[b]

EntryLt(a, b, ff) ==
    IF a[1] # b[1] THEN a[1] < b[1]
    ELSE IF a[2] = b[2] THEN FALSE
    ELSE Cell__lt__(a[2], b[2], ff)

\* heapq._siftdown, positions 1-based (parent of pos is pos \div 2).
RECURSIVE siftdown(_, _, _, _, _)
siftdown(heap, startpos, pos, newitem, ff) ==
    IF pos > startpos /\ EntryLt(newitem, heap[pos \div 2], ff)
    THEN TheOne({siftdown(moved, startpos, pos \div 2, newitem, ff) :
                    moved \in {[heap EXCEPT ![pos] = heap[pos \div 2]]}})
    ELSE [heap EXCEPT ![pos] = newitem]

\* heapq._siftup: bubble the smaller child up until a leaf is reached, then
\* sift the displaced item down from there.
RECURSIVE siftup_loop(_, _, _, _, _)
siftup_loop(heap, startpos, pos, newitem, ff) ==
    LET childpos == 2 * pos
        rightpos == childpos + 1
        pick == IF rightpos <= Len(heap)
                   /\ ~EntryLt(heap[childpos], heap[rightpos], ff)
                THEN rightpos ELSE childpos
    IN  IF childpos <= Len(heap)
        THEN TheOne({siftup_loop(moved, startpos, pick, newitem, ff) :
                        moved \in {[heap EXCEPT ![pos] = heap[pick]]}})
        ELSE siftdown(heap, startpos, pos, newitem, ff)

siftup(heap, pos, ff) == siftup_loop(heap, pos, pos, heap[pos], ff)

\* heapq.heappush
heappush(heap, item, ff) ==
    TheOne({siftdown(appended, 1, Len(appended), item, ff) :
               appended \in {Append(heap, item)}})

\* Variant of heappop that takes the last list element (list.pop()).
heappop_last(heap, ff) ==
    <<heap[Len(heap)], SubSeq(heap, 1, Len(heap) - 1)>>

\* heapq.heappop: <<returned item, heap afterwards>>
heappop(heap, ff) ==
    LET lastelt == heap[Len(heap)]
        rest == SubSeq(heap, 1, Len(heap) - 1)
    IN  IF rest # <<>>
        THEN <<heap[1],
               TheOne({siftup(moved, 1, ff) :
                          moved \in {[rest EXCEPT ![1] = lastelt]}})>>
        ELSE <<lastelt, rest>>

\* any(node == neighbor for _, node in self.open_set)
in_open(heap, c) == \E i \in 1 .. Len(heap) : heap[i][2] = c

----------------------------------------------------------------------------
\* Python list indexing grid[i]: valid for -n <= i < n, negative wraps.
IndexOk(i, n) == -n <= i /\ i < n
Index(i, n) == IF i < 0 THEN i + n ELSE i

Init ==
    /\ pc = "setup"
    /\ obstacles = {}
    /\ start_pos = None
    /\ end_pos = None
    /\ obstacle = {}
    /\ start = None
    /\ end = None
    /\ open_set = <<>>
    /\ closed_set = {}
    /\ current = None
    /\ found = FALSE
    /\ g = [c \in Cells |-> 0]
    /\ h = [c \in Cells |-> 0]
    /\ f = [c \in Cells |-> 0]
    /\ parent = [c \in Cells |-> None]
    /\ printed = ""
    /\ ret = FALSE
    /\ expanded = <<>>
    /\ pushed = <<>>
    /\ idle = 0
    /\ ed_pc = "setup"
    /\ ed_grid = {}
    /\ ed_obstacles = {}
    /\ start_point = None
    /\ end_point = None
    /\ current_mode = "obstacle"
    /\ drawing = FALSE
    /\ erasing = FALSE
    /\ obstacle_file = None
    /\ points_file = None

\* setup() followed by AStarPathfinder(grid, start, end).
\* obs: content of the obstacle file; pts: content of the points file, or
\* None when it cannot be loaded.
SetupWith(obs, pts) ==
    LET sp == IF pts = None THEN <<DefaultStartX, DefaultStartY>> ELSE pts[1]
        ep == IF pts = None THEN <<DefaultEndX, DefaultEndY>> ELSE pts[2]
        ok == /\ IndexOk(sp[1], COLS) /\ IndexOk(sp[2], ROWS)
              /\ IndexOk(ep[1], COLS) /\ IndexOk(ep[2], ROWS)
        s == <<Index(sp[1], COLS), Index(sp[2], ROWS)>>
        e == <<Index(ep[1], COLS), Index(ep[2], ROWS)>>
    IN  /\ obstacles' = obs
        /\ start_pos' = sp
        /\ end_pos' = ep
        /\ IF ok
           THEN /\ pc' = "running"
                /\ obstacle' = (obs \cap Cells) \ {s, e}
                /\ start' = s
                /\ end' = e
                /\ open_set' = <<(<<f[s], s>>)>>
                /\ pushed' = <<s>>
           ELSE /\ pc' = "IndexError"
                /\ obstacle' = obs \cap Cells
                /\ UNCHANGED <<start, end, open_set, pushed>>
        /\ UNCHANGED <<closed_set, current, found, g, h, f, parent, printed,
                       ret, expanded, idle>>
        /\ UNCHANGED editor_vars

Setup ==
    /\ pc = "setup"
    /\ \E obs \in ObstacleFiles :
       \E pts \in (PointCoords \X PointCoords) \cup {None} :
          SetupWith(obs, pts)

----------------------------------------------------------------------------
\* Variant of Update that also overwrites on an equal candidate cost.
Update_nonstrict(st, neighbor, cur) ==
    LET tentative_g == st.g[cur] + cost(cur, neighbor)
        isin == in_open(st.open_set, neighbor)
    IN  IF ~isin \/ tentative_g <= st.g[neighbor]
        THEN LET hh == heuristic(neighbor, end)
             IN  TheOne({IF ~isin
                         THEN [st2 EXCEPT !.open_set =
                                  TheOne({heappush(st2.open_set, item, st2.f) :
                                     item \in {<<st2.f[neighbor], neighbor>>}}),
                                  !.pushed = Append(st2.pushed, neighbor)]
                         ELSE st2 :
                         st2 \in {[st EXCEPT !.parent[neighbor] = cur,
                                             !.g[neighbor] = tentative_g,
                                             !.h[neighbor] = hh,
                                             !.f[neighbor] = tentative_g + hh]}})
        ELSE st

\* Variant of Update that pushes an entry on every update.
Update_pushalways(st, neighbor, cur) ==
    LET tentative_g == st.g[cur] + cost(cur, neighbor)
        isin == in_open(st.open_set, neighbor)
    IN  IF ~isin \/ tentative_g < st.g[neighbor]
        THEN LET hh == heuristic(neighbor, end)
             IN  TheOne({IF TRUE
                         THEN [st2 EXCEPT !.open_set =
                                  TheOne({heappush(st2.open_set, item, st2.f) :
                                     item \in {<<st2.f[neighbor], neighbor>>}}),
                                  !.pushed = Append(st2.pushed, neighbor)]
                         ELSE st2 :
                         st2 \in {[st EXCEPT !.parent[neighbor] = cur,
                                             !.g[neighbor] = tentative_g,
                                             !.h[neighbor] = hh,
                                             !.f[neighbor] = tentative_g + hh]}})
        ELSE st

\* Lines 98-110 of step(): the relaxation of one admissible neighbor.  st
\* carries the fields the neighbor loop mutates; cur is self.current.
Update(st, neighbor, cur) ==
    LET tentative_g == st.g[cur] + cost(cur, neighbor)
        isin == in_open(st.open_set, neighbor)
    IN  IF ~isin \/ tentative_g < st.g[neighbor]
        THEN LET hh == heuristic(neighbor, end)
             IN  TheOne({IF ~isin
                         THEN [st2 EXCEPT !.open_set =
                                  TheOne({heappush(st2.open_set, item, st2.f) :
                                     item \in {<<st2.f[neighbor], neighbor>>}}),
                                  !.pushed = Append(st2.pushed, neighbor)]
                         ELSE st2 :
                         st2 \in {[st EXCEPT !.parent[neighbor] = cur,
                                             !.g[neighbor] = tentative_g,
                                             !.h[neighbor] = hh,
                                             !.f[neighbor] = tentative_g + hh]}})
        ELSE st

\* Variant of Relax without the obstacle test.
Relax_noobstacle(st, neighbor, cur, closed) ==
    IF neighbor \notin closed THEN Update(st, neighbor, cur) ELSE st

\* Variant of Relax without the closed-set test.
Relax_noclosed(st, neighbor, cur, closed) ==
    IF neighbor \notin obstacle THEN Update(st, neighbor, cur) ELSE st

\* Body of the neighbor loop of step() for one neighbor; closed is the
\* closed set after cur was added.
Relax(st, neighbor, cur, closed) ==
    IF neighbor \notin closed /\ neighbor \notin obstacle
    THEN Update(st, neighbor, cur)
    ELSE st

RECURSIVE RelaxAll(_, _, _, _, _)
RelaxAll(st, nbrs, i, cur, closed) ==
    IF i > Len(nbrs) THEN st
    ELSE TheOne({RelaxAll(nxt, nbrs, i + 1, cur, closed) :
                    nxt \in {Relax(st, nbrs[i], cur, closed)}})

\* step(), first branch: the open set is non-empty and found is False.
StepPop ==
    /\ Len(open_set) > 0 /\ ~found
    /\ \E popped \in {heappop(open_set, f)} :
       LET cur == popped[1][2]
       IN  /\ current' = cur
           /\ IF cur = end
              THEN /\ found' = TRUE
                   /\ printed' = "Path found!"
                   /\ ret' = TRUE
                   /\ open_set' = popped[2]
                   /\ UNCHANGED <<closed_set, g, h, f, parent, expanded,
                                  pushed>>
              ELSE LET closed == closed_set \cup {cur}
                       st0 == [open_set |-> popped[2], g |-> g, h |-> h,
                               f |-> f, parent |-> parent,
                               pushed |-> pushed]
                   IN  \E st \in {RelaxAll(st0, add_neighbors(cur), 1, cur,
                                           closed)} :
                       /\ closed_set' = closed
                       /\ expanded' = Append(expanded, cur)
                       /\ open_set' = st.open_set
                       /\ g' = st.g
                       /\ h' = st.h
                       /\ f' = st.f
                       /\ parent' = st.parent
                       /\ pushed' = st.pushed
                       /\ ret' = found
                       /\ UNCHANGED <<found, printed>>
    /\ UNCHANGED idle

\* Variant of StepExhausted that forgets to set self.found.
StepExhausted_noflag ==
    /\ Len(open_set) = 0 /\ ~found
    /\ printed' = "No solution found"
    /\ ret' = TRUE
    /\ UNCHANGED <<open_set, closed_set, current, found, g, h, f, parent,
                   expanded, pushed, idle>>

\* Variant of StepExhausted that reports exhaustion with the message of the
\* found branch.
StepExhausted_samemsg ==
    /\ Len(open_set) = 0 /\ ~found
    /\ printed' = "Path found!"
    /\ found' = TRUE
    /\ ret' = TRUE
    /\ UNCHANGED <<open_set, closed_set, current, g, h, f, parent, expanded,
                   pushed, idle>>

\* step(), second branch: the open set is empty and found is False.
StepExhausted ==
    /\ Len(open_set) = 0 /\ ~found
    /\ printed' = "No solution found"
    /\ found' = TRUE
    /\ ret' = TRUE
    /\ UNCHANGED <<open_set, closed_set, current, g, h, f, parent, expanded,
                   pushed, idle>>

\* Variant of StepTerminal whose first branch does not test self.found: it
\* keeps popping while the open set is non-empty.
StepTerminal_pops ==
    /\ found
    /\ idle < MaxIdle
    /\ idle' = idle + 1
    /\ ret' = found
    /\ IF Len(open_set) > 0
       THEN \E popped \in {heappop(open_set, f)} :
               /\ current' = popped[1][2]
               /\ open_set' = popped[2]
       ELSE UNCHANGED <<open_set, current>>
    /\ UNCHANGED <<closed_set, found, g, h, f, parent, printed, expanded,
                   pushed>>

\* step() when found is already True: neither branch runs.
StepTerminal ==
    /\ found
    /\ idle < MaxIdle
    /\ idle' = idle + 1
    /\ ret' = found
    /\ UNCHANGED <<open_set, closed_set, current, found, g, h, f, parent,
                   printed, expanded, pushed>>

\* One step() call from the main loop.
Step ==
    /\ pc = "running"
    /\ (StepPop \/ StepExhausted \/ StepTerminal)
    /\ UNCHANGED <<pc, obstacles, start_pos, end_pos, obstacle, start, end>>
    /\ UNCHANGED editor_vars

\* Variant of walk that stops at the cell without a parent instead of after
\* it (while temp.parent).
RECURSIVE walk_short(_, _)
walk_short(temp, par) ==
    IF temp = None \/ par[temp] = None THEN <<>>
    ELSE <<temp>> \o walk_short(par[temp], par)

\* Variant of walk that returns the predecessor walk reversed.
RECURSIVE walk_reversed(_, _)
walk_reversed(temp, par) ==
    IF temp = None THEN <<>> ELSE walk_reversed(par[temp], par) \o <<temp>>

\* get_path(): the predecessor walk from self.current, in walk order.
RECURSIVE walk(_, _)
walk(temp, par) ==
    IF temp = None THEN <<>> ELSE <<temp>> \o walk(par[temp], par)

get_path == IF current = None THEN <<>> ELSE walk(current, parent)

\* get_open_nodes()
get_open_nodes == [i \in 1 .. Len(open_set) |-> open_set[i][2]]

Next == Setup \/ Step

Spec == Init /\ [][Next]_vars

\* The main loop calls step() on every frame for as long as the program
\* runs, so a step() that can be taken is eventually taken.  The liveness
\* specification draws the points file from the in-grid pairs whose start
\* lies in the first or the last column.
FairPoints == (({0, COLS - 1} \X (0 .. ROWS - 1)) \X Cells)

SetupFair ==
    /\ pc = "setup"
    /\ \E obs \in ObstacleFiles :
       \E pts \in FairPoints :
          SetupWith(obs, pts)

NextFair == SetupFair \/ Step

FairSpec ==
    Init /\ [][NextFair]_vars /\ WF_vars(SetupFair) /\ WF_vars(Step)

----------------------------------------------------------------------------
\* Reference notions used by the properties: 4-directional moves through
\* cells that are not obstacles, explored breadth first.
Moves(c) ==
    {<<c[1] + 1, c[2]>>, <<c[1] - 1, c[2]>>, <<c[1], c[2] + 1>>,
     <<c[1], c[2] - 1>>} \cap Cells

\* One breadth-first layer: the free cells one move away from the frontier
\* that were not seen before.
Layer(frontier, seen) ==
    (UNION {Moves(u) : u \in frontier}) \ (seen \cup obstacle)

RECURSIVE BfsReach(_, _)
BfsReach(frontier, seen) ==
    IF frontier = {} THEN seen
    ELSE TheOne({BfsReach(nxt, seen \cup nxt) :
                    nxt \in {Layer(frontier, seen)}})

Reachable == BfsReach({start}, {start})

RECURSIVE BfsDist(_, _, _)
BfsDist(frontier, seen, d) ==
    IF end \in frontier THEN d
    ELSE IF frontier = {} THEN -1
    ELSE TheOne({BfsDist(nxt, seen \cup nxt, d + 1) :
                    nxt \in {Layer(frontier, seen)}})

ShortestLength == BfsDist({start}, {start}, 0)

Built == pc = "running"
GoalPopped == Built /\ found /\ current = end

----------------------------------------------------------------------------
\* C1: when the goal is popped, the path returned by get_path() has as many
\* edges as the shortest 4-directional route from start to goal found by a
\* breadth-first search, and that number is end.g.
C1_Optimality ==
    GoalPopped =>
        /\ Len(get_path) - 1 = ShortestLength
        /\ g[end] = Len(get_path) - 1

----------------------------------------------------------------------------
\* C2: step() called repeatedly always makes a built engine terminal, and
\* never more than COLS x ROWS cells are expanded on the way.
C2_Termination ==
    /\ (Built ~> found)
    /\ [](Len(expanded) <= COLS * ROWS)

\* An engine that became terminal after expanding most of the grid.
C2_Witness == Built /\ found /\ Len(expanded) >= COLS * ROWS - 4

\* C3: no cell is added to the closed set (expanded) more than once.
C3_NoReexpansion ==
    \A i, j \in 1 .. Len(expanded) : i # j => expanded[i] # expanded[j]

\* A run in which a frontier entry went stale (its cell's f was lowered after
\* the push) and many cells were expanded.
C3_Witness ==
    /\ Built
    /\ Len(expanded) >= 6
    /\ \E i \in 1 .. Len(open_set) : open_set[i][1] # f[open_set[i][2]]

\* C4: a step() on a running engine with an empty frontier makes the engine
\* terminal and reports "No solution found"; the engine reports
\* "Path found!" only when the goal cell was popped, so the two terminal
\* states differ in what an observer sees.
C4_ExhaustedDistinct ==
    /\ [][(Built /\ ~found /\ Len(open_set) = 0)
             => (found' /\ ret' /\ printed' = "No solution found"
                 /\ current' # end)]_vars
    /\ [](found => (printed = "Path found!" <=> current = end))
    /\ [](found => printed \in {"Path found!", "No solution found"})

\* An exhausted engine.
C4_Witness ==
    Built /\ found /\ printed = "No solution found" /\ Len(open_set) = 0

\* C5: when the goal is not reachable from the start the goal is never
\* popped, and once the engine is terminal it reports exhaustion and the
\* closed set is exactly the set of cells reachable from the start.
C5_UnreachableGoal ==
    Built =>
        /\ current = end => end \in Reachable
        /\ (found /\ end \notin Reachable) =>
              (closed_set = Reachable /\ printed = "No solution found")

\* An exhausted engine whose goal is walled off, with several cells explored.
C5_Witness ==
    /\ Built /\ found /\ end \notin Reachable
    /\ Cardinality(closed_set) >= 4

\* C6: a step() on a terminal engine returns True and changes neither the
\* open set, the closed set, the current cell nor any cell's g, h, f, parent.
C6_TerminalNoop ==
    [][found => (ret' = TRUE /\ found'
                 /\ UNCHANGED <<open_set, closed_set, current, g, h, f,
                                parent>>)]_vars

\* A terminal engine that was stepped again while its open set is non-empty.
C6_Witness == Built /\ found /\ idle > 0 /\ Len(open_set) > 0

\* The endpoints loaded by setup() are invalid: outside the grid, or on a
\* coordinate listed in the obstacle file.
InvalidEndpoint ==
    \/ start_pos \notin Cells
    \/ end_pos \notin Cells
    \/ start_pos \in obstacles
    \/ end_pos \in obstacles

\* C7: construction with an invalid endpoint ends in an error and builds no
\* engine that can be stepped.
C7_InvalidEndpointRejected ==
    (pc # "setup" /\ InvalidEndpoint) => pc # "running"

\* C8: when start and goal are the same cell, the first step() ends in
\* FOUND with an empty closed set and get_path() holds only that cell.
C8_StartIsGoal ==
    (Built /\ start = end /\ current # None) =>
        /\ found /\ ret /\ printed = "Path found!"
        /\ closed_set = {} /\ expanded = <<>>
        /\ get_path = <<start>>
        /\ Len(get_path) - 1 = 0

\* The engine after its first step() when start and goal coincide.
C8_Witness == Built /\ start = end /\ current = start /\ found

\* C9 as stated: get_path() starts at the start cell and ends at the cell it
\* was reconstructed from.
C9_PathOrderStartFirst ==
    (Built /\ current # None) =>
        /\ get_path[1] = start
        /\ get_path[Len(get_path)] = current

\* C9: get_path() is in current-to-start order: its first element is the
\* cell it was reconstructed from and its last element is the start cell.
C9_PathOrder ==
    (Built /\ current # None) =>
        /\ get_path # <<>>
        /\ get_path[1] = current
        /\ get_path[Len(get_path)] = start

\* A path of at least three cells.
C9_Witness ==
    Built /\ current # None /\ current # start /\ Len(get_path) >= 3

----------------------------------------------------------------------------
\* Number of frontier entries that refer to cell c.
Count(heap, c) == Cardinality({i \in 1 .. Len(heap) : heap[i][2] = c})

\* C11: whenever a step changes a cell's g (first discovery or a lower
\* cost), the frontier gains one entry for that cell, carrying its new f.
C11_PushOnEveryImprovement ==
    [][\A n \in Cells :
          g'[n] # g[n] =>
             /\ \E i \in 1 .. Len(open_set') : open_set'[i] = <<f'[n], n>>
             /\ Count(open_set', n) = Count(open_set, n) + 1]_vars

\* A step() that pops: the engine is running with a non-empty frontier and
\* the step expands a cell or finds the goal.
PopStep ==
    /\ Built /\ ~found /\ Len(open_set) > 0
    /\ (expanded' # expanded \/ found')

\* Position of cell c in the push history.
PushIndex(c) == CHOOSE i \in 1 .. Len(pushed) : pushed[i] = c

\* C12 as stated: the popped entry has the least stored key, and among the
\* entries with that key it is the one pushed first.
C12_ExtractionFifo ==
    [][PopStep =>
          \E j \in 1 .. Len(open_set) :
             /\ open_set[j][2] = current'
             /\ \A i \in 1 .. Len(open_set) :
                   /\ open_set[j][1] <= open_set[i][1]
                   /\ (i # j /\ open_set[i][1] = open_set[j][1]) =>
                         PushIndex(current') < PushIndex(open_set[i][2])]_vars

\* C12: every step() that pops removes an entry whose stored key is minimal
\* among all entries of the frontier.
C12_ExtractionMin ==
    [][PopStep =>
          \E j \in 1 .. Len(open_set) :
             /\ open_set[j][2] = current'
             /\ \A i \in 1 .. Len(open_set) :
                   open_set[j][1] <= open_set[i][1]]_vars

\* Several pops were made and the frontier holds entries with different
\* stored keys, one of them stale.
C12_Witness ==
    /\ Built /\ Len(expanded) >= 4
    /\ \E i, j \in 1 .. Len(open_set) : open_set[i][1] < open_set[j][1]
    /\ \E i \in 1 .. Len(open_set) : open_set[i][1] # f[open_set[i][2]]

----------------------------------------------------------------------------
\* A cell is discovered once it has been pushed on the frontier.
Discovered(n) == \E i \in 1 .. Len(pushed) : pushed[i] = n

\* C13: a step changes g, h, f or parent of a cell only if the cell was never
\* discovered or the candidate cost g[current] + 1 is strictly lower than
\* its g; the update writes parent = current, g = candidate, h = Manhattan
\* distance to the goal and f = g + h; a discovered cell's g never grows.
C13_StrictRelaxation ==
    [][\A n \in Cells :
          /\ (g'[n] # g[n] \/ h'[n] # h[n] \/ f'[n] # f[n]
                \/ parent'[n] # parent[n]) =>
                /\ Built
                /\ ~Discovered(n) \/ g[current'] + 1 < g[n]
                /\ parent'[n] = current'
                /\ g'[n] = g[current'] + 1
                /\ h'[n] = heuristic(n, end)
                /\ f'[n] = g'[n] + h'[n]
          /\ Discovered(n) => g'[n] <= g[n]]_vars

\* A frontier entry is stale: its cell was improved after it was pushed.
C13_Witness ==
    /\ Built /\ ~found
    /\ \E i \in 1 .. Len(open_set) :
          LET n == open_set[i][2]
          IN  /\ open_set[i][1] > f[n]
              /\ f[n] = g[n] + heuristic(n, end)
              /\ parent[n] \in closed_set

----------------------------------------------------------------------------
\* The parent chain from c, followed for at most n links.
RECURSIVE Chain(_, _)
Chain(c, n) ==
    IF parent[c] = None \/ n = 0 THEN <<c>>
    ELSE <<c>> \o Chain(parent[c], n - 1)

\* C14: from every cell that has a parent, and from the current cell, the
\* parent links visit no cell twice and end at the start cell, which has no
\* parent; get_path() therefore terminates and equals that chain.
C14_ParentsAcyclic ==
    Built =>
       /\ parent[start] = None
       /\ \A c \in Cells :
             (parent[c] # None \/ c = current) =>
                LET ch == Chain(c, COLS * ROWS)
                IN  /\ \A i, j \in 1 .. Len(ch) : ch[i] = ch[j] => i = j
                    /\ ch[Len(ch)] = start
                    /\ parent[ch[Len(ch)]] = None
                    /\ c = current => get_path = ch

C14_Witness ==
    /\ Built
    /\ current # None
    /\ Len(Chain(current, COLS * ROWS)) >= 5
    /\ \E c \in Cells \ closed_set : Len(Chain(c, COLS * ROWS)) >= 5

----------------------------------------------------------------------------
InSeq(sq, c) == \E i \in 1 .. Len(sq) : sq[i] = c

\* C15: a step never changes g, h, f or parent of a cell that is closed or
\* an obstacle, and no obstacle cell is ever in the open set, in the closed
\* set or on the path returned by get_path(), in any state a setup or a
\* step leads to.
C15_OnlyFreeUnvisitedRelaxed ==
    [][/\ Built' => \A o \in obstacle' :
                       /\ ~InSeq(get_open_nodes', o)
                       /\ o \notin closed_set'
                       /\ ~InSeq(get_path', o)
       /\ Built => \A n \in closed_set' \cup obstacle' :
                      /\ g'[n] = g[n] /\ h'[n] = h[n]
                      /\ f'[n] = f[n] /\ parent'[n] = parent[n]]_vars

\* An expansion met an obstacle neighbor and a closed neighbor.
C15_Witness ==
    /\ Built /\ current # None /\ current \in closed_set
    /\ \E i, j \in 1 .. Len(add_neighbors(current)) :
          /\ add_neighbors(current)[i] \in obstacle
          /\ add_neighbors(current)[j] \in closed_set
    /\ \E n \in Cells : parent[n] = current

----------------------------------------------------------------------------
\* C16: the list returned by get_open_nodes() holds each cell at most once
\* and holds no cell of the closed set.
C16_OpenNodesDistinctUnclosed ==
    /\ \A i, j \in 1 .. Len(get_open_nodes) :
          get_open_nodes[i] = get_open_nodes[j] => i = j
    /\ \A i \in 1 .. Len(get_open_nodes) : get_open_nodes[i] \notin closed_set

\* Several cells pending, one of them improved while pending, next to
\* closed cells.
C16_Witness ==
    /\ Built /\ Len(get_open_nodes) >= 3 /\ Cardinality(closed_set) >= 3
    /\ \E i \in 1 .. Len(open_set) : open_set[i][1] # f[get_open_nodes[i]]

----------------------------------------------------------------------------
\* The four candidate positions around c, in the order +x, -x, +y, -y.
Around(c) ==
    <<(<<c[1] + 1, c[2]>>), (<<c[1] - 1, c[2]>>),
      (<<c[1], c[2] + 1>>), (<<c[1], c[2] - 1>>)>>

InGrid(d) == d \in Cells

\* C17: once the grid is set up, every cell's neighbor list is the list of
\* in-bounds positions among (x+1,y), (x-1,y), (x,y+1), (x,y-1) in that
\* order, has at most 4 entries, and adjacency is symmetric (every cell is
\* in the list of each cell of its own list).  The lists are built by
\* setup() and only read afterwards: all cells are examined in the state
\* setup() leaves, and the list step() has just read in every later state.
C17_NeighborLists ==
    Built =>
       \A a \in (IF current = None THEN Cells ELSE {current}) :
          /\ add_neighbors(a) = SelectSeq(Around(a), InGrid)
          /\ Len(add_neighbors(a)) <= 4
          /\ \A i \in 1 .. Len(add_neighbors(a)) :
                InSeq(add_neighbors(add_neighbors(a)[i]), a)

\* A corner cell (2 neighbors), an edge cell (3) and an inner cell (4) have
\* all been expanded.
C17_Witness ==
    /\ Built
    /\ \A k \in 2 .. 4 :
          \E i \in 1 .. Len(expanded) : Len(add_neighbors(expanded[i])) = k

----------------------------------------------------------------------------
Adjacent4(a, b) == Abs(a[1] - b[1]) + Abs(a[2] - b[2]) = 1

\* C18: after at least one step(), get_path() runs from the current cell to
\* the start cell through pairwise 4-adjacent cells, every cell with a
\* parent has g = parent.g + 1, and get_path() has current.g edges.
C18_PathChain ==
    (Built /\ current # None) =>
       /\ Len(get_path) >= 1
       /\ get_path[1] = current
       /\ get_path[Len(get_path)] = start
       /\ \A i \in 1 .. Len(get_path) - 1 :
             Adjacent4(get_path[i], get_path[i + 1])
       /\ \A c \in Cells : parent[c] # None => g[c] = g[parent[c]] + 1
       /\ Len(get_path) - 1 = g[current]

\* The path to the current cell goes around an obstacle: it has more edges
\* than the Manhattan distance between its two ends.
C18_Witness ==
    /\ Built /\ current # None
    /\ Len(get_path) >= 6
    /\ g[current] > heuristic(current, start)

----------------------------------------------------------------------------
(***************************************************************************)
(* The obstacle editor of editor.py.  A data file is the sequence of its   *)
(* lines, a line the sequence of its fields after split(), and a field is  *)
(* <<n>> when int() reads the number n from it and <<>> when int() raises  *)
(* ValueError.  A missing file and an empty file load alike and are both   *)
(* None.  Drawing and the coordinate display toggle are left out.          *)
(***************************************************************************)
screen_width == 1280
screen_height == 1040

EdDefaultStartX == 64
EdDefaultStartY == 15
EdDefaultEndX == 6
EdDefaultEndY == 51

MODE_OBSTACLE == "obstacle"
MODE_START == "start"
MODE_END == "end"

\* The line f"{x},{y}\n" as its fields.
Line(p) == <<(<<p[1]>>), (<<p[2]>>)>>

\* A line from which int(parts[0]) and int(parts[1]) both succeed.
Parses(line) == Len(line) >= 2 /\ Len(line[1]) = 1 /\ Len(line[2]) = 1

Coord(line) == <<line[1][1], line[2][1]>>

\* Contents of data/obstacles.txt when the editor starts: missing; lines
\* out of order with a duplicate and an out-of-grid coordinate; a blank
\* line, a one-field line and a line that is not a number.
EdObstacleFiles ==
    { None,
      <<Line(<<2, 1>>), Line(<<-1, 0>>), Line(<<2, 1>>)>>,
      <<(<<>>), Line(<<0, ROWS - 1>>), (<<(<<2>>)>>),
        (<<(<<>>), (<<1>>)>>)>> }

\* Contents of data/points.txt when the editor starts: missing; valid; a
\* second line with a single field.
EdPointsFiles ==
    { None,
      <<Line(<<2, 1>>), Line(<<0, ROWS - 1>>)>>,
      <<Line(<<2, 1>>), (<<(<<0>>)>>)>> }

\* Mouse positions in pixels: inside the window, and outside it while a
\* button is held (left of and below the window).
MousePositions == { <<330, 400>>, <<-200, 1100>> }

load_obstacles_from_file(file) ==
    {Coord(file[i]) : i \in {k \in 1 .. Len(file) : Parses(file[k])}}

LexLt(p, q) == p[1] < q[1] \/ (p[1] = q[1] /\ p[2] < q[2])

\* sorted(obstacles_set), one line per coordinate.
RECURSIVE SortedLines(_)
SortedLines(S) ==
    IF S = {} THEN <<>>
    ELSE LET m == CHOOSE p \in S : \A q \in S \ {p} : LexLt(p, q)
         IN  <<Line(m)>> \o SortedLines(S \ {m})

save_obstacles_to_file(obstacles_set) == SortedLines(obstacles_set)

load_points_from_file(file) ==
    IF Len(file) >= 2 /\ Parses(file[1]) /\ Parses(file[2])
    THEN <<Coord(file[1]), Coord(file[2])>>
    ELSE <<(<<EdDefaultStartX, EdDefaultStartY>>),
           (<<EdDefaultEndX, EdDefaultEndY>>)>>

save_points_to_file(s, e) == <<Line(s), Line(e)>>

\* int(a / b) for b > 0: truncation toward zero.
IntDiv(a, b) == IF a >= 0 THEN a \div b ELSE -((-a) \div b)

Min(a, b) == IF a < b THEN a ELSE b
Max(a, b) == IF a > b THEN a ELSE b

\* get_cell_from_mouse with cell_width = screen_width / COLS and
\* cell_height = screen_height / ROWS.
get_cell_from_mouse(mouse_pos) ==
    LET col == IntDiv(mouse_pos[1] * COLS, screen_width)
        row == IntDiv(mouse_pos[2] * ROWS, screen_height)
    IN  <<Max(0, Min(col, COLS - 1)), Max(0, Min(row, ROWS - 1))>>

\* editor.setup() and the initialisation of main() up to the event loop.
EdSetup ==
    /\ ed_pc = "setup"
    /\ \E of \in EdObstacleFiles, pf \in EdPointsFiles :
          LET obs == load_obstacles_from_file(of)
              pts == load_points_from_file(pf)
          IN  /\ obstacle_file' = of
              /\ points_file' = pf
              /\ ed_obstacles' = obs
              /\ ed_grid' = {c \in obs : /\ 0 <= c[1] /\ c[1] < COLS
                                         /\ 0 <= c[2] /\ c[2] < ROWS}
              /\ start_point' = pts[1]
              /\ end_point' = pts[2]
    /\ current_mode' = MODE_OBSTACLE
    /\ drawing' = FALSE
    /\ erasing' = FALSE
    /\ ed_pc' = "running"
    /\ UNCHANGED engine_vars

\* K_s
KeySave ==
    /\ ed_pc = "running"
    /\ obstacle_file' = save_obstacles_to_file(ed_obstacles)
    /\ points_file' = save_points_to_file(start_point, end_point)
    /\ UNCHANGED <<ed_pc, ed_grid, ed_obstacles, start_point, end_point,
                   current_mode, drawing, erasing>>
    /\ UNCHANGED engine_vars

\* K_l
KeyLoad ==
    /\ ed_pc = "running"
    /\ \E obs \in {load_obstacles_from_file(obstacle_file)} :
          /\ ed_obstacles' = obs
          /\ ed_grid' = {c \in Cells : c \in obs}
    /\ start_point' = load_points_from_file(points_file)[1]
    /\ end_point' = load_points_from_file(points_file)[2]
    /\ UNCHANGED <<ed_pc, current_mode, drawing, erasing, obstacle_file,
                   points_file>>
    /\ UNCHANGED engine_vars

\* Variant of ClearAll that empties the set and leaves the flags.
ClearAll_keepflags ==
    /\ ed_obstacles' = {}
    /\ UNCHANGED ed_grid

\* Lines 222-225: obstacles.clear() and the reset of every flag.
ClearAll ==
    /\ ed_obstacles' = {}
    /\ ed_grid' = {}

\* K_c, with or without Shift held.
KeyClear ==
    /\ ed_pc = "running"
    /\ \E shift \in BOOLEAN :
          IF shift THEN ClearAll ELSE UNCHANGED <<ed_obstacles, ed_grid>>
    /\ UNCHANGED <<ed_pc, start_point, end_point, current_mode, drawing,
                   erasing, obstacle_file, points_file>>
    /\ UNCHANGED engine_vars

\* K_1, K_2, K_3
KeyMode ==
    /\ ed_pc = "running"
    /\ \E m \in {MODE_OBSTACLE, MODE_START, MODE_END} : current_mode' = m
    /\ UNCHANGED <<ed_pc, ed_grid, ed_obstacles, start_point, end_point,
                   drawing, erasing, obstacle_file, points_file>>
    /\ UNCHANGED engine_vars

\* MOUSEBUTTONDOWN with button 1 (left), 2 (middle) or 3 (right).
MouseButtonDown ==
    /\ ed_pc = "running"
    /\ \E button \in 1 .. 3, mouse_pos \in MousePositions :
          LET cell == get_cell_from_mouse(mouse_pos)
          IN  IF button = 1 /\ current_mode = MODE_OBSTACLE
              THEN /\ drawing' = TRUE
                   /\ erasing' = FALSE
                   /\ IF cell \notin ed_grid
                      THEN /\ ed_grid' = ed_grid \cup {cell}
                           /\ ed_obstacles' = ed_obstacles \cup {cell}
                      ELSE UNCHANGED <<ed_grid, ed_obstacles>>
                   /\ UNCHANGED <<start_point, end_point>>
              ELSE IF button = 1
              THEN /\ IF cell \in ed_obstacles
                      THEN /\ ed_obstacles' = ed_obstacles \ {cell}
                           /\ ed_grid' = ed_grid \ {cell}
                      ELSE UNCHANGED <<ed_grid, ed_obstacles>>
                   /\ IF current_mode = MODE_START
                      THEN start_point' = cell /\ UNCHANGED end_point
                      ELSE end_point' = cell /\ UNCHANGED start_point
                   /\ UNCHANGED <<drawing, erasing>>
              ELSE IF button = 3 /\ current_mode = MODE_OBSTACLE
              THEN /\ erasing' = TRUE
                   /\ drawing' = FALSE
                   /\ IF cell \in ed_grid
                      THEN /\ ed_grid' = ed_grid \ {cell}
                           /\ ed_obstacles' = ed_obstacles \ {cell}
                      ELSE UNCHANGED <<ed_grid, ed_obstacles>>
                   /\ UNCHANGED <<start_point, end_point>>
              ELSE UNCHANGED <<ed_grid, ed_obstacles, start_point,
                               end_point, drawing, erasing>>
    /\ UNCHANGED <<ed_pc, current_mode, obstacle_file, points_file>>
    /\ UNCHANGED engine_vars

\* MOUSEMOTION
MouseMotion ==
    /\ ed_pc = "running"
    /\ \E mouse_pos \in MousePositions :
          LET cell == get_cell_from_mouse(mouse_pos)
          IN  IF current_mode = MODE_OBSTACLE /\ (drawing \/ erasing)
                 /\ cell \in Cells
              THEN IF drawing /\ cell \notin ed_grid
                   THEN /\ ed_grid' = ed_grid \cup {cell}
                        /\ ed_obstacles' = ed_obstacles \cup {cell}
                   ELSE IF erasing /\ cell \in ed_grid
                   THEN /\ ed_grid' = ed_grid \ {cell}
                        /\ ed_obstacles' = ed_obstacles \ {cell}
                   ELSE UNCHANGED <<ed_grid, ed_obstacles>>
              ELSE UNCHANGED <<ed_grid, ed_obstacles>>
    /\ UNCHANGED <<ed_pc, start_point, end_point, current_mode, drawing,
                   erasing, obstacle_file, points_file>>
    /\ UNCHANGED engine_vars

\* MOUSEBUTTONUP
MouseButtonUp ==
    /\ ed_pc = "running"
    /\ drawing' = FALSE
    /\ erasing' = FALSE
    /\ UNCHANGED <<ed_pc, ed_grid, ed_obstacles, start_point, end_point,
                   current_mode, obstacle_file, points_file>>
    /\ UNCHANGED engine_vars

\* QUIT or K_ESCAPE: the loop ends and the data is saved before exiting.
Quit ==
    /\ ed_pc = "running"
    /\ ed_pc' = "exited"
    /\ obstacle_file' = save_obstacles_to_file(ed_obstacles)
    /\ points_file' = save_points_to_file(start_point, end_point)
    /\ UNCHANGED <<ed_grid, ed_obstacles, start_point, end_point,
                   current_mode, drawing, erasing>>
    /\ UNCHANGED engine_vars

EdNext ==
    \/ EdSetup
    \/ KeySave
    \/ KeyLoad
    \/ KeyClear
    \/ KeyMode
    \/ MouseButtonDown
    \/ MouseMotion
    \/ MouseButtonUp
    \/ Quit

EditorSpec == Init /\ [][EdNext]_vars

\* C19 (editor): after setup and after every editor event, each in-grid
\* coordinate has its obstacle flag set exactly when it is in the obstacles
\* set that save writes, and drawing and erasing are never both true.
C19_FlagsMatchSet ==
    ed_pc # "setup" =>
       /\ \A c \in Cells : c \in ed_grid <=> c \in ed_obstacles
       /\ ~(drawing /\ erasing)

\* The set holds an out-of-grid coordinate from the file and a cell added
\* by dragging that is not in the file, after the start point took a cell
\* out of the set.
C19_Witness ==
    /\ ed_pc = "running"
    /\ drawing
    /\ \E c \in ed_obstacles : c \notin Cells
    /\ \E c \in ed_grid : c \notin load_obstacles_from_file(obstacle_file)
    /\ start_point \in Cells /\ start_point \notin ed_obstacles
    /\ start_point \in load_obstacles_from_file(obstacle_file)
====
